---- MODULE Spec2Model ----
(***************************************************************************)
(* The filter hierarchy of beanbot/ops/filter.py: BaseFilter and its       *)
(* subclasses TransactionFilter, BalancedTransactionFilter,                *)
(* UnbalancedTransactionFilter and PredictedTransactionFilter.             *)
(*                                                                         *)
(* A caller holds one filter variable (obj) and one entry list (entries).  *)
(* It constructs a filter, grows or replaces the list, and calls           *)
(* obj.filter(entries).  Method calls are modelled with Python's method    *)
(* resolution order, so that overriding, super() and hasattr(super(), ..)  *)
(* behave as they do in the interpreter.                                   *)
(***************************************************************************)
EXTENDS Integers, Sequences, FiniteSets, TLC

(***************************************************************************)
(* Bounds of the model.                                                    *)
(***************************************************************************)
MaxLen == 3      \* longest entry list the caller builds
MaxCalls == 2    \* filter calls made on one instance

(***************************************************************************)
(* Entries.  An entry is a ledger directive; the code looks only at its    *)
(* runtime type (isinstance).  The external predicates look at the         *)
(* postings of a transaction: residual is the amount by which the postings *)
(* fail to sum to zero, predicted says whether one posting was filled in   *)
(* by the classifier.  A directive that is no transaction has no postings; *)
(* what the external predicates do with it is theirs to decide, and ext    *)
(* ranges over the outcomes: they answer true, answer false, or raise.     *)
(***************************************************************************)
Residuals == {0, 1}
ExtOutcomes == {"true", "false", "raise"}

Transaction(r, p) ==
    [kind |-> "Transaction", residual |-> r, predicted |-> p, ext |-> "none"]

Price(x) ==
    [kind |-> "Price", residual |-> 0, predicted |-> FALSE, ext |-> x]

Transactions == {Transaction(r, p) : r \in Residuals, p \in BOOLEAN}

Directives == Transactions \cup {Price(x) : x \in ExtOutcomes}

(***************************************************************************)
(* options_map is opaque to the filters; the balance predicate reads a     *)
(* tolerance out of it.                                                    *)
(***************************************************************************)
Configs == {"exact", "loose"}
NoArg == "none"

Tolerance(options_map) == IF options_map = "exact" THEN 0 ELSE 1

(***************************************************************************)
(* Outcome of evaluating a Python expression: a value or an exception.     *)
(***************************************************************************)
Ret(v) == [exc |-> "none", val |-> v]
Raise(e) == [exc |-> e, val |-> FALSE]

(***************************************************************************)
(* The external predicates of beanbot.ops.conditions.                      *)
(***************************************************************************)
External(entry) ==
    CASE entry.ext = "true" -> Ret(TRUE)
      [] entry.ext = "false" -> Ret(FALSE)
      [] OTHER -> Raise("AttributeError")

is_balanced(entry, options_map) ==
    IF entry.kind = "Transaction"
    THEN Ret(entry.residual <= Tolerance(options_map))
    ELSE External(entry)

is_predicted(entry) ==
    IF entry.kind = "Transaction"
    THEN Ret(entry.predicted)
    ELSE External(entry)

(***************************************************************************)
(* The class hierarchy and Python's attribute lookup along the MRO.        *)
(***************************************************************************)
Classes ==
    {"BaseFilter", "TransactionFilter", "BalancedTransactionFilter",
     "UnbalancedTransactionFilter", "PredictedTransactionFilter"}

Parent(cls) ==
    CASE cls = "BaseFilter" -> "object"
      [] cls = "TransactionFilter" -> "BaseFilter"
      [] cls = "BalancedTransactionFilter" -> "TransactionFilter"
      [] cls = "UnbalancedTransactionFilter" -> "BalancedTransactionFilter"
      [] cls = "PredictedTransactionFilter" -> "TransactionFilter"

RECURSIVE MRO(_)
MRO(cls) == IF cls = "object" THEN <<"object">> ELSE <<cls>> \o MRO(Parent(cls))

\* The names each class body binds (object: the ones that matter here).
Methods(cls) ==
    CASE cls = "BaseFilter" ->
            {"__init__", "filter", "_filter_impl", "_test_condition", "_cond_impl"}
      [] cls = "TransactionFilter" -> {"_cond_impl"}
      [] cls = "BalancedTransactionFilter" -> {"__init__", "_cond_impl"}
      [] cls = "UnbalancedTransactionFilter" -> {"__init__"}
      [] cls = "PredictedTransactionFilter" -> {"_cond_impl"}
      [] cls = "object" -> {"__init__"}

RECURSIVE Resolve(_, _)
\* The first class of the sequence mro that binds name, "missing" if none does.
Resolve(mro, name) ==
    IF mro = <<>> THEN "missing"
    ELSE IF name \in Methods(Head(mro)) THEN Head(mro)
    ELSE Resolve(Tail(mro), name)

RECURSIVE After(_, _)
\* super() written in the body of class owner, on an instance whose MRO is mro:
\* the classes that follow owner.
After(mro, owner) ==
    IF mro = <<>> THEN <<>>
    ELSE IF Head(mro) = owner THEN Tail(mro)
    ELSE After(Tail(mro), owner)

hasattr_super(owner, self, name) ==
    Resolve(After(MRO(self.cls), owner), name) # "missing"

isinstance(entry, kind) == entry.kind = kind

\* The names bound at module level of filter.py; any other global name is unbound.
ModuleNames ==
    {"ABC", "abstractmethod", "FrozenSet", "List", "Set", "data", "interpolate",
     "re", "is_balanced", "is_predicted"} \cup Classes

LoadGlobal(name) == IF name \in ModuleNames THEN Ret(TRUE) ELSE Raise("NameError")

SetAttr(self, name, v) ==
    [a \in DOMAIN self \cup {name} |-> IF a = name THEN v ELSE self[a]]

(***************************************************************************)
(* Constructors.  Each returns the instance as it left it, and the         *)
(* exception it raised ("none" when it returned).                          *)
(***************************************************************************)
BaseFilter___init__(self) ==
    [self |-> SetAttr(self, "_inverse_condition", FALSE), exc |-> "none"]

BalancedTransactionFilter___init__(self, options_map) ==
    LET s == BaseFilter___init__(self)
    IN  IF s.exc # "none" THEN s
        ELSE [self |-> SetAttr(s.self, "_options_map", options_map), exc |-> "none"]

UnbalancedTransactionFilter___init__(self, options_map) ==
    LET s == BalancedTransactionFilter___init__(self, options_map)
    IN  IF s.exc # "none" THEN s
        ELSE LET t == SetAttr(s.self, "_inverse_condition", TRUE)
                 r == LoadGlobal("transactions_latest")
             IN  IF r.exc # "none" THEN [self |-> t, exc |-> r.exc]
                 ELSE [self |-> t, exc |-> "TypeError"]

\* cls(...) : allocate, then run the __init__ the MRO resolves to.
New(cls, options_map) ==
    LET raw == [cls |-> cls]
        owner == Resolve(MRO(cls), "__init__")
    IN  CASE owner = "BaseFilter" -> BaseFilter___init__(raw)
          [] owner = "BalancedTransactionFilter" ->
                BalancedTransactionFilter___init__(raw, options_map)
          [] owner = "UnbalancedTransactionFilter" ->
                UnbalancedTransactionFilter___init__(raw, options_map)

\* The argument each class's constructor takes.
CtorArgs(cls) ==
    IF Resolve(MRO(cls), "__init__") = "BaseFilter" THEN {NoArg} ELSE Configs

(***************************************************************************)
(* The condition hooks.                                                    *)
(***************************************************************************)
BaseFilter__cond_impl(self, entry) == Ret(TRUE)

TransactionFilter__cond_impl_PassThrough(self, entry) == Ret(TRUE)

TransactionFilter__cond_impl(self, entry) == Ret(isinstance(entry, "Transaction"))

BalancedTransactionFilter__cond_impl(self, entry) ==
    is_balanced(entry, self._options_map)

PredictedTransactionFilter__cond_impl(self, entry) == is_predicted(entry)

\* self._cond_impl(entry): dynamic dispatch on the class of self.
_cond_impl(self, entry) ==
    LET owner == Resolve(MRO(self.cls), "_cond_impl")
    IN  CASE owner = "BaseFilter" -> BaseFilter__cond_impl(self, entry)
          [] owner = "TransactionFilter" -> TransactionFilter__cond_impl(self, entry)
          [] owner = "BalancedTransactionFilter" ->
                BalancedTransactionFilter__cond_impl(self, entry)
          [] owner = "PredictedTransactionFilter" ->
                PredictedTransactionFilter__cond_impl(self, entry)

(***************************************************************************)
(* BaseFilter._test_condition: the hook's answer, negated when the         *)
(* instance's inversion flag is set.  An exception of the hook propagates. *)
(***************************************************************************)
_test_condition_AlwaysInverts(self, entry) ==
    LET condition == _cond_impl(self, entry)
    IN  IF condition.exc # "none" THEN condition ELSE Ret(~condition.val)

_test_condition(self, entry) ==
    LET condition == _cond_impl(self, entry)
    IN  IF condition.exc # "none" THEN condition
        ELSE IF self._inverse_condition THEN Ret(~condition.val)
        ELSE condition

(***************************************************************************)
(* BaseFilter._filter_impl: the list comprehension, evaluated left to      *)
(* right from entry i on; kept is the list built so far.  It stops at the  *)
(* first exception.  hooks counts the evaluations of the condition hook.   *)
(***************************************************************************)
RECURSIVE Comprehension(_, _, _, _)
Comprehension(self, entries, i, kept) ==
    IF i > Len(entries)
    THEN [exc |-> "none", ret |-> kept, hooks |-> i - 1]
    ELSE LET t == _test_condition(self, entries[i])
         IN  IF t.exc # "none"
             THEN [exc |-> t.exc, ret |-> <<>>, hooks |-> i]
             ELSE Comprehension(self, entries, i + 1,
                                IF t.val THEN Append(kept, entries[i]) ELSE kept)

RECURSIVE Reverse(_)
Reverse(s) == IF s = <<>> THEN <<>> ELSE Append(Reverse(Tail(s)), Head(s))

_filter_impl_Reversed(self, entries) ==
    LET r == Comprehension(self, entries, 1, <<>>)
    IN  [r EXCEPT !.ret = Reverse(r.ret)]

_filter_impl(self, entries) == Comprehension(self, entries, 1, <<>>)

(***************************************************************************)
(* BaseFilter.filter.  The result records what the call returned or        *)
(* raised, and the instance and the caller's list as the call left them.   *)
(***************************************************************************)
Returned(self, entries, r) ==
    [self |-> self, entries |-> entries,
     exc |-> r.exc, ret |-> r.ret, hooks |-> r.hooks]

filter_NoRootCase(self, entries) ==
    IF hasattr_super("BaseFilter", self, "filter")
    THEN Returned(self, entries, [exc |-> "TypeError", ret |-> <<>>, hooks |-> 0])
    ELSE Returned(self, entries, _filter_impl(self, entries))

filter_FlipsFlag(self, entries) ==
    IF self.cls = "BaseFilter"
    THEN Returned(self, entries, [exc |-> "none", ret |-> entries, hooks |-> 0])
    ELSE Returned(SetAttr(self, "_inverse_condition", ~self._inverse_condition),
                  entries, _filter_impl(self, entries))

filter(self, entries) ==
    IF self.cls = "BaseFilter"
    THEN Returned(self, entries, [exc |-> "none", ret |-> entries, hooks |-> 0])
    ELSE IF hasattr_super("BaseFilter", self, "filter")
    THEN \* super().filter() is called without its argument
         Returned(self, entries, [exc |-> "TypeError", ret |-> <<>>, hooks |-> 0])
    ELSE Returned(self, entries, _filter_impl(self, entries))

(***************************************************************************)
(* The state: the caller's filter variable, the arguments it was built     *)
(* with, the last constructor call and how it ended, the caller's entry    *)
(* list, the outcome of the last filter call on that list, and the number  *)
(* of filter calls made on the instance.                                   *)
(***************************************************************************)
VARIABLES obj, made, ctor, entries, out, ncalls

vars == <<obj, made, ctor, entries, out, ncalls>>

None == [cls |-> "None"]
NoCall == [called |-> FALSE, exc |-> "none", ret |-> <<>>, hooks |-> 0]

Outcome(r) == [called |-> TRUE, exc |-> r.exc, ret |-> r.ret, hooks |-> r.hooks]

Init ==
    /\ obj = None
    /\ made = [cls |-> "None", options_map |-> NoArg]
    /\ ctor = [cls |-> "None", options_map |-> NoArg, exc |-> "none"]
    /\ entries = <<>>
    /\ out = NoCall
    /\ ncalls = 0

\* obj = cls(options_map).  When the constructor raises, the assignment does
\* not happen and the caller keeps what it had.
Construct(cls, options_map) ==
    LET r == New(cls, options_map)
    IN  /\ ctor' = [cls |-> cls, options_map |-> options_map, exc |-> r.exc]
        /\ IF r.exc = "none"
           THEN /\ obj' = r.self
                /\ made' = [cls |-> cls, options_map |-> options_map]
                /\ out' = NoCall
                /\ ncalls' = 0
           ELSE UNCHANGED <<obj, made, out, ncalls>>
        /\ UNCHANGED entries

\* The caller adds a directive to its list.
AppendEntry(e) ==
    /\ Len(entries) < MaxLen
    /\ entries' = Append(entries, e)
    /\ out' = NoCall
    /\ UNCHANGED <<obj, made, ctor, ncalls>>

\* The caller starts another list.
NewEntries ==
    /\ entries # <<>>
    /\ entries' = <<>>
    /\ out' = NoCall
    /\ UNCHANGED <<obj, made, ctor, ncalls>>

\* out = obj.filter(entries)
CallFilter ==
    /\ obj # None
    /\ ncalls < MaxCalls
    /\ LET r == filter(obj, entries)
       IN  /\ obj' = r.self
           /\ entries' = r.entries
           /\ out' = Outcome(r)
    /\ ncalls' = ncalls + 1
    /\ UNCHANGED <<made, ctor>>

Next ==
    \/ \E cls \in Classes : \E options_map \in CtorArgs(cls) : Construct(cls, options_map)
    \/ \E e \in Directives : AppendEntry(e)
    \/ NewEntries
    \/ CallFilter

Spec == Init /\ [][Next]_vars

(***************************************************************************)
(* Vocabulary of the properties.                                           *)
(***************************************************************************)
IsTransaction(e) == e.kind = "Transaction"

Balanced(e, options_map) == e.residual <= Tolerance(options_map)

Count(s, e) == Cardinality({i \in 1..Len(s) : s[i] = e})

RECURSIVE IsSubsequence(_, _)
\* a is b with some entries left out, the others in b's order
IsSubsequence(a, b) ==
    IF a = <<>> THEN TRUE
    ELSE IF b = <<>> THEN FALSE
    ELSE IF Head(a) = Head(b) THEN IsSubsequence(Tail(a), Tail(b))
    ELSE IsSubsequence(a, Tail(b))

AllTransactions(s) == \A i \in 1..Len(s) : IsTransaction(s[i])

CalledOn(cls) == made.cls = cls /\ out.called

\* C1: BalancedTransactionFilter(cfg).filter(S) returns exactly the entries of S
\* that are transactions and balanced under cfg, in S's order.
C1_BalancedKeepsBalancedTransactions ==
    CalledOn("BalancedTransactionFilter") =>
        /\ out.exc = "none"
        /\ out.ret = SelectSeq(entries,
               LAMBDA e : IsTransaction(e) /\ Balanced(e, made.options_map))

\* C2: UnbalancedTransactionFilter(cfg) can be built and its filter(S) returns
\* exactly the entries of S that are transactions and not balanced under cfg.
C2_UnbalancedKeepsUnbalancedTransactions ==
    /\ ctor.cls = "UnbalancedTransactionFilter" =>
           made = [cls |-> ctor.cls, options_map |-> ctor.options_map]
    /\ CalledOn("UnbalancedTransactionFilter") =>
           /\ out.exc = "none"
           /\ out.ret = SelectSeq(entries,
                  LAMBDA e : IsTransaction(e) /\ ~Balanced(e, made.options_map))

\* C3: constructing UnbalancedTransactionFilter(cfg) raises nothing and yields an
\* instance whose inversion flag is true and whose configuration is cfg.
C3_UnbalancedConstructorReturns ==
    ctor.cls = "UnbalancedTransactionFilter" =>
        /\ ctor.exc = "none"
        /\ obj.cls = "UnbalancedTransactionFilter"
        /\ obj._inverse_condition = TRUE
        /\ obj._options_map = ctor.options_map

\* C4: on a list T of transactions only, the balanced and the unbalanced filter of
\* one configuration split TransactionFilter().filter(T): each entry of it is in
\* exactly one of the two results, and both keep its order.
C4_BalancedUnbalancedPartition ==
    (CalledOn("BalancedTransactionFilter") /\ AllTransactions(entries)) =>
        LET u == New("UnbalancedTransactionFilter", made.options_map)
            t == New("TransactionFilter", NoArg)
        IN  /\ u.exc = "none"
            /\ t.exc = "none"
            /\ LET unb == filter(u.self, entries)
                   txn == filter(t.self, entries)
               IN  /\ out.exc = "none" /\ unb.exc = "none" /\ txn.exc = "none"
                   /\ IsSubsequence(out.ret, txn.ret)
                   /\ IsSubsequence(unb.ret, txn.ret)
                   /\ \A i \in 1..Len(txn.ret) :
                          /\ Count(out.ret, txn.ret[i]) + Count(unb.ret, txn.ret[i])
                                 = Count(txn.ret, txn.ret[i])
                          /\ Count(out.ret, txn.ret[i]) = 0
                                 \/ Count(unb.ret, txn.ret[i]) = 0
                   /\ Len(out.ret) + Len(unb.ret) = Len(txn.ret)

\* C5: PredictedTransactionFilter().filter(S) returns exactly the entries of S
\* that are transactions and predicted, in S's order; no other directive is kept.
C5_PredictedKeepsPredictedTransactions ==
    CalledOn("PredictedTransactionFilter") =>
        /\ out.exc = "none"
        /\ out.ret = SelectSeq(entries, LAMBDA e : IsTransaction(e) /\ e.predicted)

\* C6: TransactionFilter().filter(S) returns exactly the transactions of S, each
\* as often as in S and in S's order, and no other directive.
C6_TransactionFilterKeepsTransactions ==
    CalledOn("TransactionFilter") =>
        /\ out.exc = "none"
        /\ out.ret = SelectSeq(entries, IsTransaction)
        /\ \A e \in Directives :
               Count(out.ret, e) = IF IsTransaction(e) THEN Count(entries, e) ELSE 0

C6_Witness ==
    /\ CalledOn("TransactionFilter")
    /\ Len(entries) = 3
    /\ IsTransaction(entries[1])
    /\ ~IsTransaction(entries[2])
    /\ entries[3] = entries[1]
    /\ out.ret = <<entries[1], entries[3]>>

\* C7: filter on a BaseFilter instance returns the list it was given, with the
\* same entries as often and in the same order, and evaluates no condition hook.
C7_BaseFilterIsIdentity ==
    CalledOn("BaseFilter") =>
        /\ out.exc = "none"
        /\ out.ret = entries
        /\ out.hooks = 0

C7_Witness ==
    /\ CalledOn("BaseFilter")
    /\ Len(entries) = 3
    /\ entries[1] = entries[3]
    /\ ~IsTransaction(entries[2])
    /\ out.ret = entries

C9_FilterCallHasNoSideEffect ==
    [][CallFilter =>
          /\ obj' = obj
          /\ entries' = entries
          /\ obj = New(made.cls, made.options_map).self
          /\ out' = Outcome(filter(New(made.cls, made.options_map).self, entries))]_vars

C9_Witness ==
    /\ CalledOn("BalancedTransactionFilter")
    /\ ncalls = 2
    /\ out.exc = "none"
    /\ out.ret # <<>>
    /\ out.ret # entries

\* The hook the class of instance o ends up with.
MostDerivedHook(o, e) ==
    CASE o.cls = "TransactionFilter" -> Ret(IsTransaction(e))
      [] o.cls = "BalancedTransactionFilter" -> is_balanced(e, o._options_map)
      [] o.cls = "UnbalancedTransactionFilter" -> is_balanced(e, o._options_map)
      [] o.cls = "PredictedTransactionFilter" -> is_predicted(e)

====
